---- MODULE Spec2Model ----
(***************************************************************************)
(* Model of the Sudoku board of sudoku_board.py (class Board) and of the   *)
(* handlers of main.py (class MainWindow) that call it.                    *)
(*                                                                         *)
(* A grid is a function from coordinates <<i, j>>, i and j in 0..8, to     *)
(* 0..9, where 0 stands for Python's None.  Board objects hold a reference *)
(* to their cell storage (`data`), so that sharing of storage between two  *)
(* boards is expressible; `store` maps references to grids.                *)
(*                                                                         *)
(* recursion_solve is modelled as an explicit stack of frames.  One step   *)
(* of the model is one iteration of the while loop of the topmost frame    *)
(* (pop a digit, assign it, call into the next coordinate) or the exit of  *)
(* that loop (assign None, return False).  The frames of coordinates that  *)
(* hold initial digits only forward the call and its result, so they are   *)
(* pushed and popped within the step that makes the call or the return.    *)
(* digits.pop() removes an arbitrary element of the set.                   *)
(***************************************************************************)
EXTENDS Integers, Sequences, FiniteSets, TLC

\* ------------------------------------------------------------------ bounds
\* Number of cells of FreeCells in which the matrices given to Board(...) and
\* the values given to __setitem__ vary.
MaxFree == 4

\* Number of handlers connected to the timer, and of seconds on the clock.
MaxStarts == 2
MaxTime == 2

\* ------------------------------------------------------- program constants
N == 9
BlockSize == 3
None == 0

Rows == 0..(N - 1)
Coord == Rows \X Rows
Digits == 1..N
Values == Digits \cup {None}
LastCoord == <<N, 0>>

\* ------------------------------------------------------------------ inputs
\* The board main() of sudoku_board.py prints as "Solved board": test1 with
\* its empty cells filled.
Solved1 ==
  << <<4,8,9,1,3,5,6,7,2>>,
     <<7,5,2,9,4,6,8,3,1>>,
     <<3,1,6,7,2,8,5,4,9>>,
     <<8,7,3,2,6,9,4,1,5>>,
     <<9,2,4,5,8,1,7,6,3>>,
     <<1,6,5,4,7,3,9,2,8>>,
     <<6,9,1,3,5,7,2,8,4>>,
     <<2,3,8,6,9,4,1,5,7>>,
     <<5,4,7,8,1,2,3,9,6>> >>

\* A matrix (list of rows) as a grid.
FromRows(m) == [c \in Coord |-> m[c[1] + 1][c[2] + 1]]

\* The cells in which the inputs vary.  In Solved1 the cells (6,5), (6,8),
\* (7,5), (7,8) hold 7 4 / 4 7, in two rows, two columns and two blocks, and
\* (0,0) holds 4.
FreeCells == << <<6,5>>, <<6,8>>, <<7,5>>, <<0,0>>, <<7,8>>, <<8,8>> >>
FreeSet == {FreeCells[k] : k \in 1..MaxFree}
InputDigits == {4, 7}
InputValues == InputDigits \cup {None}

\* Solved1 with the free cells overwritten by f.
Patch(f) == [c \in Coord |-> IF c \in FreeSet THEN f[c] ELSE FromRows(Solved1)[c]]
InitMatrices == {Patch(f) : f \in [FreeSet -> InputValues]}

\* ----------------------------------------------------------------- Board
Refs == {"r1", "r2"}
Empty == [c \in Coord |-> None]

\* Board.__init__: the coordinates of the initial digits.
static_digits_index(data) == {c \in Coord : data[c] # None}

\* is_available with the test turned around.
is_available_inverted(static, coord) == coord \in static

\* Board.is_available
is_available(static, coord) == coord \notin static

\* Board.next_coord
next_coord(coord) ==
  <<coord[1] + (IF coord[2] = 8 THEN 1 ELSE 0), (coord[2] + 1) % N>>

\* get_digits_available that removes no digit.
get_digits_available_unpruned(data, coord) == Digits

\* get_digits_available without digits_in_row.
get_digits_available_no_row(data, coord) ==
  LET ii == coord[1]
      jj == coord[2]
      block_start_i == (ii \div BlockSize) * BlockSize
      block_start_j == (jj \div BlockSize) * BlockSize
      digits_in_block ==
        {data[<<y, x>>] : <<y, x>> \in
           {p \in (block_start_i..(block_start_i + 2)) \X
                  (block_start_j..(block_start_j + 2)) : p # coord}}
      digits_in_column == {data[<<y, jj>>] : y \in {y \in Rows : y # ii}}
  IN  Digits \ (digits_in_block \cup digits_in_column)

\* get_digits_available without the tests (y,x) != coord, x != jj, y != ii.
get_digits_available_with_self(data, coord) ==
  LET ii == coord[1]
      jj == coord[2]
      block_start_i == (ii \div BlockSize) * BlockSize
      block_start_j == (jj \div BlockSize) * BlockSize
      digits_in_block ==
        {data[<<y, x>>] : <<y, x>> \in
           (block_start_i..(block_start_i + 2)) \X
           (block_start_j..(block_start_j + 2))}
      digits_in_row == {data[<<ii, x>>] : x \in Rows}
      digits_in_column == {data[<<y, jj>>] : y \in Rows}
  IN  Digits \ (digits_in_block \cup digits_in_column \cup digits_in_row)

\* Board.get_digits_available
get_digits_available(data, coord) ==
  LET ii == coord[1]
      jj == coord[2]
      block_start_i == (ii \div BlockSize) * BlockSize
      block_start_j == (jj \div BlockSize) * BlockSize
      digits_in_block ==
        {data[<<y, x>>] : <<y, x>> \in
           {p \in (block_start_i..(block_start_i + 2)) \X
                  (block_start_j..(block_start_j + 2)) : p # coord}}
      digits_in_row == {data[<<ii, x>>] : x \in {x \in Rows : x # jj}}
      digits_in_column == {data[<<y, jj>>] : y \in {y \in Rows : y # ii}}
  IN  Digits \ (digits_in_block \cup digits_in_column \cup digits_in_row)

\* is_solved with len(...) == 0 as its test.
is_solved_none_left(data) ==
  \A c \in Coord : Cardinality(get_digits_available(data, c)) = 0

\* Board.is_solved
is_solved(data) ==
  \A c \in Coord : Cardinality(get_digits_available(data, c)) = 1

\* __setitem__ that drops the assignment of None.
setitem_keeps_digit(static, data, coord, value) ==
  IF coord \notin static /\ value # None
    THEN [data EXCEPT ![coord] = value] ELSE data

\* __setitem__ without the is_available test.
setitem_unchecked(static, data, coord, value) == [data EXCEPT ![coord] = value]

\* Board.__setitem__: the grid after self[coord] = value, and whether the
\* assignment raises IndexError instead.
setitem_raises(static, coord) == ~is_available(static, coord)
setitem(static, data, coord, value) ==
  IF is_available(static, coord) THEN [data EXCEPT ![coord] = value] ELSE data

\* clear without the test (i, j) not in self.static_digits_index.
clear_every_cell(static, data) == [c \in Coord |-> None]

\* Board.clear
clear(static, data) ==
  [c \in Coord |-> IF c \notin static THEN None ELSE data[c]]

\* is_solvable without its validation loop.
static_digits_unvalidated(static, data) == TRUE

\* The validation loop of is_solvable: every initial digit of new_board is
\* among the digits available at its coordinate.
static_digits_valid(static, data) ==
  \A c \in static : data[c] \in get_digits_available(data, c)

\* Board(self.data): new_board on the storage of the board it copies.
copy_ref_shared(src) == src

\* The storage [row.copy() for row in self.data] of is_solvable lives in:
\* fresh, apart from the storage src of the board that is copied.
copy_ref(src) == CHOOSE r \in Refs : r # src

\* ------------------------------------------------------- recursion_solve
\* A frame of recursion_solve: its coordinate, the digits left in `digits`,
\* whether it is in the while loop (open) or forwards the call it made for a
\* coordinate with an initial digit, and the grid the call was made on (kept
\* for the properties; the code holds no such copy).
Frame(coord, digits, open, entry) ==
  [coord |-> coord, digits |-> digits, open |-> open, entry |-> entry]

\* next_coord applied k times to coord, the second half of the applications
\* to the value of the first half.
RECURSIVE next_coord_times(_, _)
next_coord_times(k, coord) ==
  IF k = 0 THEN coord
  ELSE IF k = 1 THEN next_coord(coord)
  ELSE CHOOSE c \in {next_coord_times(k - (k \div 2), mid) :
                       mid \in {next_coord_times(k \div 2, coord)}} : TRUE

\* The coordinates recursion_solve is called on, in order: (0, 0), then
\* next_coord of the one before, up to (9, 0).
Visits == [k \in 1..(N * N + 1) |-> next_coord_times(k - 1, <<0, 0>>)] \o <<>>

\* digits.pop() that leaves the element in the set.
pop_keeps(digits) == {<<d, digits>> : d \in digits}

\* digits.pop(): what it may return, an arbitrary element of the set, paired
\* with the set it leaves.
pop(digits) == {<<d, digits \ {d}>> : d \in digits}

\* The call recursion_solve(coord) on top of the frames stk, followed up to
\* the first frame that reaches its while loop, or to (9, 0), where the call
\* returns True through every frame.  The calls in between are those of the
\* coordinates with initial digits: each calls recursion_solve on next_coord
\* of its coordinate and returns what that call returns.
Call(static, data, coord, stk) ==
  LET first == CHOOSE k \in 1..Len(Visits) : Visits[k] = coord
      stop == CHOOSE k \in first..Len(Visits) :
                /\ Visits[k] = LastCoord \/ is_available(static, Visits[k])
                /\ \A m \in first..(k - 1) :
                     ~(Visits[m] = LastCoord \/ is_available(static, Visits[m]))
      last == Visits[stop]
      forwarding == [k \in 1..(stop - first) |->
                       Frame(Visits[first + k - 1], {}, FALSE, data)]
  IN  IF last = LastCoord
        THEN [ret |-> "True", stack |-> <<>>]
        ELSE [ret |-> "running",
              stack |-> stk \o forwarding \o
                        <<Frame(last, get_digits_available(data, last), TRUE, data)>>]

\* The frames left when the topmost frame returns False: the forwarding
\* frames under it return False as well, down to a frame in its while loop.
Unwind(stk) ==
  LET open == {i \in 1..Len(stk) : stk[i].open}
  IN  IF open = {} THEN <<>>
      ELSE SubSeq(stk, 1, CHOOSE i \in open : \A j \in open : j <= i)

\* "return result" for "if result: return True": a False ends the search.
ReturnFalse_no_retry(stk) == <<>>

ReturnFalse(stk) == Unwind(SubSeq(stk, 1, Len(stk) - 1))

\* ------------------------------------------------------------------ state
VARIABLES
  store,      \* the cell storage: reference -> grid
  board,      \* the board of the window (main.py) or of main(): data, static
  born,       \* the matrix board was constructed from
  new_board,  \* new_board of is_solvable
  input,      \* the grid of the caller when is_solvable was called
  pc,         \* "idle", "search" (in recursion_solve), "done" (returned)
  self,       \* the board recursion_solve runs on: "board" or "new_board"
  stack,      \* the frames of recursion_solve
  entered,    \* recursion_solve was called since the last call from idle
  assigned,   \* recursion_solve assigned a digit since the last call from idle
  result,     \* what the call returned: "Board", "False", "True", "None";
              \* "none" when no call has returned
  exc,        \* the exception the call raised: "IndexError", "none"
  connected,  \* the start_time of each handler connected to lcdtimer.timeout,
              \* in the order of connection
  active,     \* lcdtimer is running
  lcd,        \* what lcdNumber displays
  now,        \* time.time(), in seconds
  emitting    \* the handler the current timeout calls next; 0 outside a timeout

timer == <<connected, active, lcd, now, emitting>>

vars == <<store, board, born, new_board, input, pc, self, stack, entered,
          assigned, result, exc, connected, active, lcd, now, emitting>>

NoBoard == [data |-> "null", static |-> {}]

\* MainWindow.__init__: lcdtimer = QTimer(self); stop_lcd_timer(reset=True).
InitTimer ==
  /\ connected = <<>>
  /\ active = FALSE
  /\ lcd = "88:88:88"
  /\ now = 0
  /\ emitting = 0

\* Board(data), for each matrix of InitMatrices.
Init ==
  /\ InitTimer
  /\ \E m \in InitMatrices :
       /\ store = [r \in Refs |-> IF r = "r1" THEN m ELSE Empty]
       /\ board = [data |-> "r1", static |-> static_digits_index(m)]
       /\ born = m
  /\ new_board = NoBoard
  /\ input = Empty
  /\ pc = "idle"
  /\ self = "board"
  /\ stack = <<>>
  /\ entered = FALSE
  /\ assigned = FALSE
  /\ result = "none"
  /\ exc = "none"

\* The board recursion_solve runs on.
Self == IF self = "board" THEN board ELSE new_board

\* board[coord] = value (Board.__setitem__), as slot_click and callers of the
\* class make it.  An assignment that raises ends the call with IndexError.
SetItem(coord, value) ==
  /\ pc = "idle"
  /\ store' = [store EXCEPT ![board.data] =
                 setitem(board.static, store[board.data], coord, value)]
  /\ exc' = IF setitem_raises(board.static, coord) THEN "IndexError" ELSE "none"
  /\ pc' = IF setitem_raises(board.static, coord) THEN "done" ELSE "idle"
  /\ UNCHANGED timer
  /\ UNCHANGED <<board, born, new_board, input, self, stack, entered,
                 assigned, result>>

\* board.clear() (MainWindow.clear_all without include_static); it returns
\* None.
Clear ==
  /\ pc = "idle"
  /\ store' = [store EXCEPT ![board.data] = clear(board.static, store[board.data])]
  /\ pc' = "done"
  /\ result' = "None"
  /\ UNCHANGED timer
  /\ UNCHANGED <<board, born, new_board, input, self, stack, entered,
                 assigned, exc>>

\* MainWindow.check_board: board.is_solved(), and stop_lcd_timer(reset=False)
\* when it is True.
CheckBoard ==
  /\ pc = "idle"
  /\ emitting = 0
  /\ pc' = "done"
  /\ result' = IF is_solved(store[board.data]) THEN "True" ELSE "False"
  /\ active' = IF is_solved(store[board.data]) THEN FALSE ELSE active
  /\ UNCHANGED <<connected, lcd, now, emitting>>
  /\ UNCHANGED <<store, board, born, new_board, input, self, stack,
                 entered, assigned, exc>>

\* What recursion_solve's caller does with the value it returns: is_solvable
\* drops it, checks new_board.is_solved() and returns new_board or False.
Returned(who, ret, data) ==
  IF who = "board" THEN ret
  ELSE IF is_solved(data) THEN "Board" ELSE "False"

\* board.is_solvable() up to the call of new_board.recursion_solve(): the
\* copy, the validation of the initial digits of the copy, and the call.
IsSolvable ==
  /\ pc = "idle"
  /\ LET data == store[board.data]
         ref == copy_ref(board.data)
         static == static_digits_index(data)
         call == Call(static, data, <<0, 0>>, <<>>)
     IN  /\ store' = [store EXCEPT ![ref] = data]
         /\ new_board' = [data |-> ref, static |-> static]
         /\ input' = data
         /\ self' = "new_board"
         /\ assigned' = FALSE
         /\ IF ~static_digits_valid(static, data)
              THEN /\ pc' = "done"
                   /\ result' = "False"
                   /\ stack' = <<>>
                   /\ entered' = FALSE
              ELSE /\ entered' = TRUE
                   /\ stack' = call.stack
                   /\ pc' = IF call.ret = "True" THEN "done" ELSE "search"
                   /\ result' = IF call.ret = "True"
                                  THEN Returned("new_board", "True", data)
                                  ELSE "none"
  /\ UNCHANGED timer
  /\ UNCHANGED <<board, born, exc>>

\* board.recursion_solve(), called on the board itself as main() does.
RecursionSolve ==
  /\ pc = "idle"
  /\ LET call == Call(board.static, store[board.data], <<0, 0>>, <<>>)
     IN  /\ stack' = call.stack
         /\ pc' = IF call.ret = "True" THEN "done" ELSE "search"
         /\ result' = IF call.ret = "True" THEN "True" ELSE "none"
  /\ self' = "board"
  /\ entered' = TRUE
  /\ assigned' = FALSE
  /\ UNCHANGED timer
  /\ UNCHANGED <<store, board, born, new_board, input, exc>>

\* One iteration of the while loop of the topmost frame:
\* self[coord] = digits.pop(); result = self.recursion_solve(next_coord(coord)).
Try ==
  /\ pc = "search"
  /\ LET top == stack[Len(stack)]
     IN  /\ top.digits # {}
         /\ \E p \in pop(top.digits) :
              LET data == setitem(Self.static, store[Self.data], top.coord, p[1])
                  stk == [stack EXCEPT ![Len(stack)].digits = p[2]]
                  call == Call(Self.static, data, next_coord(top.coord), stk)
              IN  /\ store' = [store EXCEPT ![Self.data] = data]
                  /\ stack' = call.stack
                  /\ pc' = IF call.ret = "True" THEN "done" ELSE "search"
                  /\ result' = IF call.ret = "True"
                                 THEN Returned(self, "True", data) ELSE "none"
  /\ assigned' = TRUE
  /\ UNCHANGED timer
  /\ UNCHANGED <<board, born, new_board, input, self, entered, exc>>

\* The exit of the while loop of the topmost frame:
\* self[coord] = None; return False.
Backtrack ==
  /\ pc = "search"
  /\ LET top == stack[Len(stack)]
         data == setitem(Self.static, store[Self.data], top.coord, None)
         stk == ReturnFalse(stack)
     IN  /\ top.digits = {}
         /\ store' = [store EXCEPT ![Self.data] = data]
         /\ stack' = stk
         /\ pc' = IF stk = <<>> THEN "done" ELSE "search"
         /\ result' = IF stk = <<>> THEN Returned(self, "False", data) ELSE "none"
  /\ UNCHANGED timer
  /\ UNCHANGED <<board, born, new_board, input, self, entered, assigned, exc>>

\* The caller drops what the call returned or raised
\* (initialize_board_from_labels, check_board, main()); new_board is garbage.
Return ==
  /\ pc = "done"
  /\ pc' = "idle"
  /\ store' = [r \in Refs |-> IF r = board.data THEN store[r] ELSE Empty]
  /\ new_board' = NoBoard
  /\ input' = Empty
  /\ self' = "board"
  /\ result' = "none"
  /\ exc' = "none"
  /\ entered' = FALSE
  /\ assigned' = FALSE
  /\ UNCHANGED timer
  /\ UNCHANGED <<board, born, stack>>

\* MainWindow.solve_sudoku after is_solvable returned a board:
\* self.board = board.
SolveSudoku ==
  /\ pc = "done"
  /\ self = "new_board"
  /\ result = "Board"
  /\ pc' = "idle"
  /\ board' = new_board
  /\ born' = input
  /\ store' = [r \in Refs |-> IF r = new_board.data THEN store[r] ELSE Empty]
  /\ new_board' = NoBoard
  /\ input' = Empty
  /\ self' = "board"
  /\ result' = "none"
  /\ entered' = FALSE
  /\ assigned' = FALSE
  /\ UNCHANGED timer
  /\ UNCHANGED <<stack, exc>>

Next ==
  \/ \E c \in FreeSet, v \in InputValues : SetItem(c, v)
  \/ Clear
  \/ CheckBoard
  \/ IsSolvable
  \/ RecursionSolve
  \/ Try
  \/ Backtrack
  \/ Return
  \/ SolveSudoku

Spec == Init /\ [][Next]_vars

\* Calls of is_solvable alone, on the boards of Init.  recursion_solve is
\* sequential code in one thread of control: a while loop that can make its
\* next iteration, or leave, does so.
NextSolve ==
  \/ IsSolvable
  \/ Try
  \/ Backtrack
  \/ Return

SpecSolve == Init /\ [][NextSolve]_vars /\ WF_vars(Try \/ Backtrack)

\* The board under construction, __setitem__ and clear alone: the grids that
\* get_digits_available is examined on cell by cell.
NextEdit ==
  \/ \E c \in FreeSet, v \in InputValues : SetItem(c, v)
  \/ Clear
  \/ Return

SpecEdit == Init /\ [][NextEdit]_vars

\* ------------------------------------------------------------ the window
\* The window after MainWindow.__init__: its board is Board of the all-empty
\* matrix.
InitWindow ==
  /\ InitTimer
  /\ store = [r \in Refs |-> Empty]
  /\ board = [data |-> "r1", static |-> static_digits_index(Empty)]
  /\ born = Empty
  /\ new_board = NoBoard
  /\ input = Empty
  /\ pc = "idle"
  /\ self = "board"
  /\ stack = <<>>
  /\ entered = FALSE
  /\ assigned = FALSE
  /\ result = "none"
  /\ exc = "none"

\* The matrices load_data loads: the solved test1 board, and the same board
\* with the free cells empty.
Puzzles == {FromRows(Solved1), Patch([c \in FreeSet |-> None])}

\* update_lcd_display: what is displayed for diff seconds, as hh, mm, ss.
Clock(diff) == <<diff \div 3600, (diff % 3600) \div 60, diff % 60>>

\* start_lcd_timer: start_time = time.time(); a handler with that start_time
\* is connected to lcdtimer.timeout, after those connected before;
\* lcdtimer.start(500).
StartLcdTimer ==
  /\ Len(connected) < MaxStarts
  /\ connected' = Append(connected, now)
  /\ active' = TRUE
  /\ UNCHANGED <<lcd, now, emitting>>

\* MainWindow.initialize_board_from_labels: the board is built anew from the
\* labels, which show the digits of the board; what is_solvable returns only
\* decides on a message; the timer is started.
InitializeBoardFromLabels ==
  /\ pc = "idle"
  /\ emitting = 0
  /\ board' = [board EXCEPT !.static = static_digits_index(store[board.data])]
  /\ born' = store[board.data]
  /\ StartLcdTimer
  /\ UNCHANGED <<store, new_board, input, pc, self, stack, entered, assigned,
                 result, exc>>

\* MainWindow.load_data with data loaded.
LoadData(data) ==
  /\ pc = "idle"
  /\ emitting = 0
  /\ store' = [store EXCEPT ![board.data] = data]
  /\ board' = [board EXCEPT !.static = static_digits_index(data)]
  /\ born' = data
  /\ StartLcdTimer
  /\ UNCHANGED <<new_board, input, pc, self, stack, entered, assigned,
                 result, exc>>

\* MainWindow.clear_all with include_static: an all-empty board, and
\* stop_lcd_timer(reset=True).
ClearAll ==
  /\ pc = "idle"
  /\ emitting = 0
  /\ store' = [store EXCEPT ![board.data] = Empty]
  /\ board' = [board EXCEPT !.static = static_digits_index(Empty)]
  /\ born' = Empty
  /\ active' = FALSE
  /\ lcd' = "88:88:88"
  /\ UNCHANGED <<new_board, input, pc, self, stack, entered, assigned,
                 result, exc, connected, now, emitting>>

\* lcdtimer.timeout is emitted: the connected handlers are called one after
\* the other, in the order of their connection.
Timeout ==
  /\ pc = "idle"
  /\ emitting = 0
  /\ active
  /\ connected # <<>>
  /\ emitting' = 1
  /\ UNCHANGED <<store, board, born, new_board, input, pc, self, stack,
                 entered, assigned, result, exc, connected, active, lcd, now>>

\* update_lcd_display(start_time) of the handler the timeout calls next.
UpdateLcdDisplay ==
  /\ emitting > 0
  /\ lcd' = Clock(now - connected[emitting])
  /\ emitting' = IF emitting < Len(connected) THEN emitting + 1 ELSE 0
  /\ UNCHANGED <<store, board, born, new_board, input, pc, self, stack,
                 entered, assigned, result, exc, connected, active, now>>

\* A second passes on the clock time.time() reads.
Advance ==
  /\ emitting = 0
  /\ now < MaxTime
  /\ now' = now + 1
  /\ UNCHANGED <<store, board, born, new_board, input, pc, self, stack,
                 entered, assigned, result, exc, connected, active, lcd,
                 emitting>>

NextTimer ==
  \/ InitializeBoardFromLabels
  \/ \E data \in Puzzles : LoadData(data)
  \/ ClearAll
  \/ CheckBoard
  \/ Return
  \/ Timeout
  \/ UpdateLcdDisplay
  \/ Advance

SpecTimer == InitWindow /\ [][NextTimer]_vars

\* ------------------------------------------------------------- properties
\* The coordinates that share a row, a column or a block with c.
Peers(c) ==
  LET bi == (c[1] \div 3) * 3
      bj == (c[2] \div 3) * 3
  IN  (({c[1]} \X Rows) \cup (Rows \X {c[2]}) \cup
       ((bi..(bi + 2)) \X (bj..(bj + 2)))) \ {c}

\* The digits elsewhere in the row, column and block of c.
DigitsElsewhere(g, c) == {g[d] : d \in Peers(c)} \ {None}

Full(g) == \A c \in Coord : g[c] \in Digits
NoRepeat(g) == \A c \in Coord : g[c] # None => g[c] \notin DigitsElsewhere(g, c)
Agrees(g, in) == \A c \in Coord : in[c] # None => g[c] = in[c]
EmptyCells(g) == {c \in Coord : g[c] = None}

\* g has a completion: a full grid without repeats that agrees with g.  Decided
\* cell by cell: a digit is placed at an empty cell of g without a repeat, and
\* the grid so extended has a completion.
RECURSIVE HasCompletion(_)
HasCompletion(g) ==
  IF EmptyCells(g) = {} THEN NoRepeat(g)
  ELSE LET e == CHOOSE c \in EmptyCells(g) :
                  \A d \in EmptyCells(g) : d[1] * N + d[2] <= c[1] * N + c[2]
       IN  \E v \in Digits :
             /\ v \notin DigitsElsewhere(g, e)
             /\ HasCompletion([g EXCEPT ![e] = v])

\* is_solvable has returned.
SolveReturned == pc = "done" /\ self = "new_board"

\* C1: when is_solvable returns a board, every cell of it holds a digit 1-9,
\* no digit occurs twice in a row, column or block, and every cell that was
\* not empty in the grid is_solvable was called on holds the same digit.
C1_SolveSound ==
  (SolveReturned /\ result = "Board") =>
     LET g == store[new_board.data]
     IN  Full(g) /\ NoRepeat(g) /\ Agrees(g, input)

\* is_solvable returned a board after a search that filled two or more cells.
C1_Witness ==
  /\ SolveReturned /\ result = "Board" /\ assigned
  /\ Cardinality(EmptyCells(input)) >= 2

\* C2: is_solvable returns a board if the grid it was called on has a
\* completion, and False only if it has none.
C2_SolveComplete ==
  SolveReturned => (result = "Board" <=> HasCompletion(input))

\* is_solvable returned False after a search (the initial digits passed the
\* validation), on a grid with no completion.
C2_Witness ==
  /\ SolveReturned /\ result = "False" /\ entered /\ assigned
  /\ ~HasCompletion(input)

\* board.is_solved() has returned (check_board).
CheckReturned ==
  pc = "done" /\ self = "board" /\ ~entered /\ result \in {"True", "False"}

\* C3: is_solved returns True if and only if every cell is filled and no row,
\* column or block holds a digit twice.
C3_IsSolvedIffComplete ==
  CheckReturned =>
     (result = "True" <=> (Full(store[board.data]) /\ NoRepeat(store[board.data])))

\* C4: the fixed set of a board is the one of its construction, and every
\* fixed coordinate holds the digit it held at construction: for the board,
\* under __setitem__, clear and recursion_solve on it, and for new_board.
C4_FixedCells ==
  /\ board.static = static_digits_index(born)
  /\ \A c \in board.static :
       store[board.data][c] = born[c] /\ born[c] # None
  /\ new_board.data \in Refs =>
       /\ new_board.static = static_digits_index(input)
       /\ \A c \in new_board.static :
            store[new_board.data][c] = input[c] /\ input[c] # None

\* recursion_solve runs on the board itself, has assigned a digit, and the
\* board has fixed and non-fixed cells.
C4_Witness ==
  /\ pc = "search" /\ self = "board" /\ assigned
  /\ board.static # {} /\ board.static # Coord
  /\ \E c \in FreeSet : c \in board.static

\* Board.__getitem__
getitem(data, coord) == data[coord]

\* C5: self[c] = v on a non-fixed coordinate makes self[c] return v, changes
\* no other cell and raises nothing; on a fixed coordinate it raises
\* IndexError and leaves every cell and the fixed set unchanged.
C5_SetContract ==
  [][\A c \in FreeSet, v \in InputValues :
       SetItem(c, v) =>
         IF c \notin board.static
           THEN /\ getitem(store'[board.data], c) = v
                /\ \A d \in Coord \ {c} :
                     store'[board.data][d] = store[board.data][d]
                /\ exc' = "none"
                /\ board' = board
           ELSE /\ exc' = "IndexError"
                /\ store' = store
                /\ board' = board]_vars

\* An assignment to a fixed coordinate has raised IndexError.
C5_Witness ==
  /\ pc = "done" /\ exc = "IndexError"
  /\ \E c \in FreeSet : c \in board.static

\* C6: during and after is_solvable the grid and the fixed set of the board
\* it was called on are those of the call, and new_board has its own storage.
C6_CopyOnSolve ==
  (self = "new_board" /\ pc \in {"search", "done"}) =>
     /\ store[board.data] = input
     /\ board.static = static_digits_index(born)
     /\ new_board.data # board.data

\* is_solvable returned after assignments; the copy differs from the board.
C6_Witness ==
  /\ SolveReturned /\ assigned
  /\ store[new_board.data] # store[board.data]

\* Some fixed digit of g equals another digit in its row, column or block.
FixedRepeat(g, static) ==
  \E c \in static : g[c] # None /\ g[c] \in DigitsElsewhere(g, c)

\* C7: when a fixed digit of the grid is_solvable is called on equals another
\* digit of its row, column or block, is_solvable returns False without a
\* call of recursion_solve and without an assignment.
C7_ConsistencyGate ==
  (self = "new_board" /\ pc # "idle" /\ FixedRepeat(input, board.static)) =>
     /\ pc = "done"
     /\ result = "False"
     /\ ~entered
     /\ ~assigned
     /\ stack = <<>>
     /\ store[new_board.data] = input

\* is_solvable returned on a grid with a repeated fixed digit.
C7_Witness ==
  SolveReturned /\ FixedRepeat(input, board.static) /\ result = "False"

\* The grids of the boards that exist.
Grids ==
  {store[board.data]} \cup
  (IF new_board.data \in Refs THEN {store[new_board.data]} ELSE {})

\* C8 as stated: get_digits_available(c) holds no digit present elsewhere in
\* the row, column or block of c, and holds the digit at c if c is not empty.
C8_CandidatesAsStated ==
  \A g \in Grids : \A c \in Coord :
     LET cand == get_digits_available(g, c)
     IN  /\ cand \cap DigitsElsewhere(g, c) = {}
         /\ g[c] # None => g[c] \in cand

\* C8 amended: get_digits_available(c) holds no digit present elsewhere in the
\* row, column or block of c, and holds the digit at c if c is not empty and
\* that digit is not present elsewhere in the row, column or block of c.
C8_Candidates ==
  \A g \in Grids : \A c \in Coord :
     LET cand == get_digits_available(g, c)
     IN  /\ cand \cap DigitsElsewhere(g, c) = {}
         /\ (g[c] # None /\ g[c] \notin DigitsElsewhere(g, c)) => g[c] \in cand

\* The board holds a digit that is among the digits available at its cell and
\* a digit that is not.
C8_Witness ==
  LET g == store[board.data]
  IN  /\ \E c \in Coord : g[c] # None /\ g[c] \in get_digits_available(g, c)
      /\ \E c \in Coord : g[c] # None /\ g[c] \notin get_digits_available(g, c)

\* C10: is_solvable on a full grid without repeats returns a board equal to
\* that grid in every cell; so does is_solvable on the board it returned.
C10_Idempotent ==
  (SolveReturned /\ Full(input) /\ NoRepeat(input)) =>
     /\ result = "Board"
     /\ store[new_board.data] = input

\* is_solvable returned on the board an earlier is_solvable returned
\* (solve_sudoku made it the board: only then is the board on storage r2).
C10_Witness ==
  /\ SolveReturned /\ result = "Board"
  /\ board.data = "r2"
  /\ Full(input) /\ NoRepeat(input)

\* C11: board.clear() leaves the fixed set as it was, leaves every fixed cell
\* with the digit it held, leaves every non-fixed cell empty, and returns
\* without an exception.
C11_ClearFrame ==
  [][Clear =>
       /\ board' = board
       /\ \A c \in Coord :
            store'[board.data][c] =
              IF c \in board.static THEN store[board.data][c] ELSE None
       /\ \A c \in board.static : store'[board.data][c] \in Digits
       /\ pc' = "done" /\ result' = "None" /\ exc' = "none"]_vars

\* clear has returned on the board solve_sudoku installed, a board with fixed
\* cells and with non-fixed cells.
C11_Witness ==
  /\ pc = "done" /\ result = "None" /\ exc = "none"
  /\ board.data = "r2"
  /\ board.static # {} /\ board.static # Coord
  /\ \A c \in Coord \ board.static : store[board.data][c] = None

\* The place of a coordinate in the row-major order.
Index(c) == c[1] * N + c[2]

\* C12: when a call recursion_solve(c) that was made with every non-fixed cell
\* at or after c empty returns False, every non-fixed cell at or after c is
\* empty, every cell before c and every fixed cell holds what it held when the
\* call was made; so a failed call from (0,0) leaves exactly the fixed digits.
\* The calls that return in a Backtrack step are those of the frames it pops.
C12_BacktrackRestores ==
  [][Backtrack =>
       \A i \in (Len(stack') + 1)..Len(stack) :
          LET c == stack[i].coord
              before == stack[i].entry
              after == store'[Self.data]
              free == {d \in Coord \ Self.static : Index(d) >= Index(c)}
          IN  (\A d \in free : before[d] = None) =>
                /\ \A d \in free : after[d] = None
                /\ \A d \in Coord : Index(d) < Index(c) => after[d] = before[d]
                /\ \A d \in Self.static : after[d] = before[d] /\ after[d] # None]_vars

\* In is_solvable a call has returned False to a frame that had assigned a
\* digit: the frame is in its while loop again and its cell holds the digit.
C12_Witness ==
  /\ pc = "search" /\ self = "new_board"
  /\ LET top == stack[Len(stack)]
     IN  /\ top.open
         /\ store[new_board.data][top.coord] # None

\* C13: every call of is_solvable that starts a search returns; the frames of
\* recursion_solve are on coordinates of the grid in strictly increasing
\* row-major order, so there is at most one per coordinate; and a frame that
\* stays on the stack never gets a digit back into `digits`, the digit an
\* iteration assigns being one it removes.
C13_Termination ==
  /\ (pc = "search" /\ self = "new_board") ~> SolveReturned
  /\ [](\A i, j \in 1..Len(stack) :
          /\ stack[i].coord \in Coord
          /\ i < j => Index(stack[i].coord) < Index(stack[j].coord))
  /\ [][pc = "search" =>
          \A i \in 1..Len(stack) :
             i <= Len(stack') =>
               /\ stack'[i].coord = stack[i].coord
               /\ stack'[i].digits \subseteq stack[i].digits
               /\ (Try /\ i = Len(stack)) =>
                    /\ store'[Self.data][stack[i].coord] \in stack[i].digits
                    /\ store'[Self.data][stack[i].coord] \notin stack'[i].digits]_vars

\* A frame under the topmost one has assigned a digit and has digits left.
C13_Witness ==
  /\ pc = "search" /\ self = "new_board"
  /\ \E i \in 1..(Len(stack) - 1) :
       /\ stack[i].open
       /\ stack[i].digits # {}
       /\ store[new_board.data][stack[i].coord] # None

\* C14: while is_solvable is in the search it entered, and when the search has
\* returned, no digit of the grid of new_board is repeated in a row, column or
\* block; while it is in the search, every non-fixed cell after the coordinate
\* of the topmost frame is empty.
C14_SearchInvariant ==
  (self = "new_board" /\ entered /\ pc \in {"search", "done"}) =>
     LET g == store[new_board.data]
     IN  /\ NoRepeat(g)
         /\ pc = "search" =>
              \A d \in Coord \ new_board.static :
                 Index(d) > Index(stack[Len(stack)].coord) => g[d] = None

\* The search of is_solvable has assigned a digit and has a non-fixed cell
\* after the coordinate of its topmost frame.
C14_Witness ==
  /\ pc = "search" /\ self = "new_board" /\ assigned
  /\ \E d \in Coord \ new_board.static :
       Index(d) > Index(stack[Len(stack)].coord)
  /\ \E d \in Coord \ new_board.static : store[new_board.data][d] # None

\* C15: the board is_solvable returns has the fixed set of the board it was
\* called on.
C15_FixedSetPreserved ==
  (SolveReturned /\ result = "Board") => new_board.static = board.static

\* C16: recursion_solve called from (0,0) on the board itself returns True,
\* with a full grid without repeats, whenever the fixed digits of the board
\* alone have a completion, whatever digits its non-fixed cells held.
C16_InPlaceIgnoresStale ==
  (pc = "done" /\ self = "board" /\ entered) =>
     LET g == store[board.data]
     IN  HasCompletion(clear(board.static, g)) =>
           (result = "True" /\ Full(g) /\ NoRepeat(g))

\* C17: at most one handler is connected to the timer, and in a timeout the
\* display, once a handler has set it, shows the time elapsed since the most
\* recent start.
C17_SingleHandler ==
  /\ Len(connected) <= 1
  /\ emitting > 1 => lcd = Clock(now - connected[Len(connected)])

====
